---------------------------- MODULE Spec2Model ----------------------------
(***************************************************************************)
(* A model of basify's DirectoryAutoIterator                               *)
(* (src/py/directory_auto_iterator.py): the incremental directory          *)
(* iteration engine with its per-directory progress record.                *)
(*                                                                         *)
(* Paths and names are strings.  Where the code looks into a string (the   *)
(* storage key is a character substitution, the extension filter a         *)
(* case-insensitive suffix test, the sort lexicographic on code points)    *)
(* the model computes on the string's characters, Chars(s).                *)
(***************************************************************************)
EXTENDS Naturals, Sequences, FiniteSets, TLC

VARIABLES disk, store, res, hist

vars == <<disk, store, res, hist>>

(***************************************************************************)
(* Characters and strings                                                  *)
(***************************************************************************)

\* The characters of the directory and file names of the model.
Chars(s) ==
  CASE s = "" -> <<>>
    [] s = "/a/b" -> <<"/", "a", "/", "b">>
    [] s = "/a_b" -> <<"/", "a", "_", "b">>
    [] s = "/a/b/s" -> <<"/", "a", "/", "b", "/", "s">>
    [] s = "/no" -> <<"/", "n", "o">>
    [] s = "a:\\b" -> <<"a", ":", "\\", "b">>
    [] s = "a.png" -> <<"a", ".", "p", "n", "g">>
    [] s = "b.PNG" -> <<"b", ".", "P", "N", "G">>
    [] s = "n.txt" -> <<"n", ".", "t", "x", "t">>
    [] s = "z.png" -> <<"z", ".", "p", "n", "g">>
    [] s = "d.png" -> <<"d", ".", "p", "n", "g">>
    [] s = "s" -> <<"s">>
    [] s = "x.png" -> <<"x", ".", "p", "n", "g">>

\* The string of a sequence of characters.
RECURSIVE Str(_)
Str(cs) == IF cs = <<>> THEN "" ELSE Head(cs) \o Str(Tail(cs))

\* ord(c) of the characters that occur in the model's paths.
CodePoint(c) ==
  CASE c = "." -> 46  [] c = "/" -> 47  [] c = ":" -> 58
    [] c = "G" -> 71  [] c = "N" -> 78  [] c = "P" -> 80
    [] c = "\\" -> 92 [] c = "_" -> 95
    [] c = "a" -> 97  [] c = "b" -> 98  [] c = "c" -> 99
    [] c = "d" -> 100 [] c = "g" -> 103 [] c = "j" -> 106
    [] c = "n" -> 110 [] c = "o" -> 111 [] c = "p" -> 112
    [] c = "s" -> 115 [] c = "t" -> 116 [] c = "x" -> 120
    [] c = "z" -> 122

\* str.lower() on one character.
LowerChar(c) ==
  CASE c = "G" -> "g" [] c = "N" -> "n" [] c = "P" -> "p" [] OTHER -> c

\* str.lower()
Lower(cs) == [i \in 1..Len(cs) |-> LowerChar(cs[i])]

\* str.endswith(suffix)
EndsWith(cs, suffix) ==
  /\ Len(suffix) <= Len(cs)
  /\ SubSeq(cs, Len(cs) - Len(suffix) + 1, Len(cs)) = suffix

\* Python's < on strings: lexicographic on code points, a proper prefix first.
RECURSIVE StrLess(_, _)
StrLess(cs, ct) ==
  IF cs = <<>> THEN ct # <<>>
  ELSE IF ct = <<>> THEN FALSE
  ELSE IF Head(cs) = Head(ct) THEN StrLess(Tail(cs), Tail(ct))
  ELSE CodePoint(Head(cs)) < CodePoint(Head(ct))

\* The elements of a sequence.
Range(q) == {q[i] : i \in 1..Len(q)}

\* [x for x in q if x in S], the order of q kept.
RECURSIVE FilterSeq(_, _)
FilterSeq(q, S) ==
  IF q = <<>> THEN <<>>
  ELSE IF Head(q) \in S THEN <<Head(q)>> \o FilterSeq(Tail(q), S)
  ELSE FilterSeq(Tail(q), S)

(***************************************************************************)
(* The file system                                                         *)
(*                                                                         *)
(* disk is the set of directory entries, [dir, name, kind, path] with kind *)
(* "file" or "dir".  The directories of ExistingDirs exist throughout.     *)
(***************************************************************************)

\* self.image_extensions
image_extensions ==
  { <<".", "j", "p", "g">>, <<".", "j", "p", "e", "g">>, <<".", "p", "n", "g">>,
    <<".", "b", "m", "p">>, <<".", "t", "i", "f", "f">>, <<".", "t", "i", "f">>,
    <<".", "w", "e", "b", "p">>, <<".", "g", "i", "f">> }

\* os.path.join(directory, name), directory without a trailing separator.
PathJoin(d, name) == d \o "/" \o name

\* "/a/b" and "/a_b" exist; "/no" does not.
ExistingDirs == {"/a/b", "/a_b"}
DirArgs == {"/a/b", "/a_b", "/no", ""}

File(d, name) == [dir |-> d, name |-> name, kind |-> "file", path |-> PathJoin(d, name)]

\* The entries there can be.
Universe ==
  { File("/a/b", "a.png"), File("/a/b", "b.PNG"),
    File("/a/b", "n.txt"), File("/a_b", "z.png") }

\* The entries that are there throughout: a text file, and the one image of
\* "/a_b".
StaticEntries == { File("/a/b", "n.txt"), File("/a_b", "z.png") }

Dir(d, name) == [dir |-> d, name |-> name, kind |-> "dir", path |-> PathJoin(d, name)]

\* The entries there can be besides, where only the scans are followed: in
\* "/a/b" a directory named like an image and a subdirectory with an image.
Tree == { Dir("/a/b", "x.png"), Dir("/a/b", "s"), File("/a/b/s", "d.png") }

Entries == Universe \cup Tree

Paths == {e.path : e \in Entries}

\* The characters of an entry's path.
EntryPathChars(e) == Chars(e.dir) \o <<"/">> \o Chars(e.name)

\* The paths there can be, in the order list.sort() gives them.
RECURSIVE SortEntries(_)
SortEntries(S) ==
  IF S = {} THEN <<>>
  ELSE LET m == CHOOSE x \in S :
                  \A y \in S \ {x} : StrLess(EntryPathChars(x), EntryPathChars(y))
       IN  <<m.path>> \o SortEntries(S \ {m})

PathOrder == SortEntries(Entries)

\* images.sort(), of paths of entries.
SortPaths(S) == FilterSeq(PathOrder, S)

\* os.path.exists(path)
Exists(dsk, path) ==
  \/ path \in ExistingDirs
  \/ \E e \in dsk : e.path = path

\* any(file.lower().endswith(ext) for ext in self.image_extensions)
HasImageExtension(name) ==
  \E ext \in image_extensions : EndsWith(Lower(Chars(name)), ext)

\* The names of entries that pass the extension filter.
ImageNames == {n \in {e.name : e \in Entries} : HasImageExtension(n)}

\* scan_directory_for_images: os.listdir names every entry, whatever its kind.
scan_directory_for_images(dsk, directory_path) ==
  IF ~Exists(dsk, directory_path) THEN <<>>
  ELSE SortPaths({ e.path : e \in {x \in dsk : x.dir = directory_path
                                               /\ x.name \in ImageNames} })

\* The directories os.walk visits: the top and, level by level, the entries
\* of kind "dir" below it.
RECURSIVE WalkRoots(_, _)
WalkRoots(dsk, roots) ==
  LET more == { e.path : e \in {x \in dsk : x.kind = "dir" /\ x.dir \in roots} }
  IN  IF more \subseteq roots THEN roots ELSE WalkRoots(dsk, roots \cup more)

\* scan_directory_recursive: os.walk lists as files the entries that are not
\* directories.
scan_directory_recursive(dsk, directory_path) ==
  IF ~Exists(dsk, directory_path) THEN <<>>
  ELSE SortPaths({ e.path : e \in {x \in dsk : /\ x.dir \in WalkRoots(dsk, {directory_path})
                                               /\ x.kind = "file"
                                               /\ x.name \in ImageNames} })

(***************************************************************************)
(* The stored progress records                                             *)
(*                                                                         *)
(* store maps a storage key to the content of its state file.  A content   *)
(* is "absent" (no file), "corrupt" (not JSON), "scalar" (a JSON number,   *)
(* boolean or null), "array" (a JSON list or string) or "object"; keys are *)
(* the fields the object has.  pf_list tells whether processed_files is a  *)
(* list of strings (what set() accepts); the list is kept as the set of    *)
(* its elements, which is all the code reads of it.                        *)
(***************************************************************************)

\* get_state_file_path: the file name made from the directory path.
get_state_file_path(directory_path) ==
  LET cs == Chars(directory_path)
  IN  Str([i \in 1..Len(cs) |-> IF cs[i] \in {"/", "\\", ":"} THEN "_" ELSE cs[i]])

\* The state file of each directory.
StateFileOf == [d \in ExistingDirs |-> get_state_file_path(d)]

Keys == {StateFileOf[d] : d \in ExistingDirs}

Content(kind, keys, pf, pfList, dp, completed, ci) ==
  [kind |-> kind, keys |-> keys, processed_files |-> pf, pf_list |-> pfList,
   directory_path |-> dp, completed |-> completed, current_index |-> ci]

Absent == Content("absent", {}, {}, TRUE, "", FALSE, 0)
Corrupt == Content("corrupt", {}, {}, TRUE, "", FALSE, 0)
Scalar == Content("scalar", {}, {}, TRUE, "", FALSE, 0)
Array == Content("array", {}, {}, TRUE, "", FALSE, 0)

\* {"processed_files": [], "directory_path": directory_path, "completed": False}
FreshState(directory_path) ==
  Content("object", {"processed_files", "directory_path", "completed"},
          {}, TRUE, directory_path, FALSE, 0)

\* load_state without lines 38-40.
load_state_unmigrated(st, directory_path) ==
  LET f == st[StateFileOf[directory_path]]
  IN  IF f.kind \in {"absent", "corrupt", "scalar"}
      THEN FreshState(directory_path)
      ELSE f

\* load_state without its try and its os.path.exists.
load_state_unguarded(st, directory_path) == st[StateFileOf[directory_path]]

\* load_state
load_state(st, directory_path) ==
  LET f == st[StateFileOf[directory_path]]
  IN  CASE f.kind = "absent" -> FreshState(directory_path)
        \* json.load raises: caught
        [] f.kind = "corrupt" -> FreshState(directory_path)
        \* "current_index" in <number> raises TypeError: caught
        [] f.kind = "scalar" -> FreshState(directory_path)
        \* "current_index" in <list> is False: the list is returned
        [] f.kind = "array" -> f
        [] OTHER ->
             IF "current_index" \in f.keys /\ "processed_files" \notin f.keys
             THEN [f EXCEPT !.keys = (@ \cup {"processed_files"}) \ {"current_index"},
                            !.processed_files = {},
                            !.pf_list = TRUE,
                            !.current_index = 0]
             ELSE f

\* What a write leaves in the file: the record, the old content when open()
\* fails, or a truncated file when the write breaks off; the exception is
\* caught in each case.
WriteOutcomes == {"ok", "open_failed", "partial"}

\* save_state that adds to the processed_files the file holds.
save_state_merging(st, directory_path, state, outcome) ==
  LET f == st[StateFileOf[directory_path]]
  IN  [st EXCEPT ![StateFileOf[directory_path]] =
         [state EXCEPT !.processed_files =
            @ \cup (IF f.kind = "object" THEN f.processed_files ELSE {})]]

\* save_state that writes nothing.
save_state_skipped(st, directory_path, state, outcome) == st

\* save_state
save_state(st, directory_path, state, outcome) ==
  CASE outcome = "ok" -> [st EXCEPT ![StateFileOf[directory_path]] = state]
    [] outcome = "partial" -> [st EXCEPT ![StateFileOf[directory_path]] = Corrupt]
    [] OTHER -> st

\* reset_state that keeps the processed_files of the record there is.
reset_state_keeping(st, directory_path, outcome) ==
  LET f == st[StateFileOf[directory_path]]
  IN  save_state(st, directory_path,
                 [FreshState(directory_path) EXCEPT
                    !.processed_files = IF f.kind = "object" THEN f.processed_files ELSE {},
                    !.completed = f.kind = "object" /\ ~f.completed],
                 outcome)

\* reset_state: the state it returns is FreshState(directory_path); this is
\* the store it leaves.
reset_state(st, directory_path, outcome) ==
  save_state(st, directory_path, FreshState(directory_path), outcome)

\* state.get("directory_path") != directory_path
DirectoryDiffers(state, directory_path) ==
  ~("directory_path" \in state.keys /\ state.directory_path = directory_path)

\* A processed set that starts over once the record is completed.
ProcessedOfRestarting(state) ==
  IF "processed_files" \in state.keys /\ ~state.completed
  THEN state.processed_files ELSE {}

\* state.get("processed_files", [])
ProcessedOf(state) ==
  IF "processed_files" \in state.keys THEN state.processed_files ELSE {}

(***************************************************************************)
(* load_next_image                                                         *)
(*                                                                         *)
(* One invocation is one step.  Its inputs are the four arguments, the     *)
(* fate of each candidate the loop comes to ("ok": it is there and loads,  *)
(* "fail": load_image_as_tensor returns (None, None), "gone": it was       *)
(* deleted after the scan) and the outcome of each write of the record.    *)
(***************************************************************************)

Fates == {"ok", "fail", "gone"}

\* os.path.basename of the path of an entry.
Basename(path) ==
  IF path = "" THEN ""
  ELSE (CHOOSE e \in Entries : e.path = path).name

\* The result tuple with state["completed"] (line 272) for its completed.
ResultStoredFlag(kind, args, read, image, path, idx, total, completed, visited, outcomes, writes) ==
  [kind |-> kind, read |-> read,
   directory_path |-> args.directory_path,
   reset_on_directory_change |-> args.reset_on_directory_change,
   reset_progress |-> args.reset_progress,
   image |-> image, file_path |-> path,
   filename |-> Basename(path),
   current_index |-> idx, total_count |-> total,
   completed |-> total > 0 /\ idx >= total,
   visited |-> visited, outcomes |-> outcomes, writes |-> writes]

\* The result tuple (image stands for image and mask: whether they are
\* there), the arguments it answers, and what the invocation went through:
\* the kind of content load_state read ("none" when it was not called), the
\* paths the loop came to, the fate of each, the outcome of each write.
Result(kind, args, read, image, path, idx, total, completed, visited, outcomes, writes) ==
  [kind |-> kind, read |-> read,
   directory_path |-> args.directory_path,
   reset_on_directory_change |-> args.reset_on_directory_change,
   reset_progress |-> args.reset_progress,
   image |-> image, file_path |-> path, filename |-> Basename(path),
   current_index |-> idx, total_count |-> total, completed |-> completed,
   visited |-> visited, outcomes |-> outcomes, writes |-> writes]

NoArgs ==
  [directory_path |-> "", process_subdirectories |-> "disable",
   reset_on_directory_change |-> "disable", reset_progress |-> "false"]

NoResult == Result("none", NoArgs, "none", FALSE, "", 0, 0, FALSE, <<>>, <<>>, <<>>)

\* Lines 204-208: the scan.
ScanFor(dsk, args) ==
  IF args.process_subdirectories = "enable"
  THEN scan_directory_recursive(dsk, args.directory_path)
  ELSE scan_directory_for_images(dsk, args.directory_path)

\* Line 195 without os.path.exists.
IsInvalidWhenEmpty(dsk, args) == args.directory_path = ""

\* Line 195
IsInvalid(dsk, args) ==
  args.directory_path = "" \/ ~Exists(dsk, args.directory_path)

\* A reset on a directory change that never fires.
AutoResetNever(loaded, args) == FALSE

\* Lines 218-220: the reset on a directory change fires.
AutoResetFires(loaded, args) ==
  /\ DirectoryDiffers(loaded, args.directory_path)
  /\ args.reset_on_directory_change = "enable"

\* Lines 222-224: the manual reset fires.
ManualResetFires(args) == args.reset_progress = "true"

\* How many times lines 216-224 write the record.
ResetWrites(loaded, args) ==
  (IF AutoResetFires(loaded, args) THEN 1 ELSE 0)
  + (IF ManualResetFires(args) THEN 1 ELSE 0)

\* Lines 215-224: the state after load_state and the resets.
StateAfterResets(loaded, args) ==
  IF AutoResetFires(loaded, args) \/ ManualResetFires(args)
  THEN FreshState(args.directory_path)
  ELSE loaded

\* The store after the calls of reset_state, w the outcomes of their writes.
RECURSIVE StoreAfterResets(_, _, _)
StoreAfterResets(st, directory_path, w) ==
  IF w = <<>> THEN st
  ELSE StoreAfterResets(reset_state(st, directory_path, Head(w)),
                        directory_path, Tail(w))

\* Line 229 without its filter.
UnprocessedUnfiltered(all_images, processed_files) == all_images

\* Line 229: [img for img in all_images if img not in processed_files]
Unprocessed(all_images, processed_files) ==
  FilterSeq(all_images, Range(all_images) \ processed_files)

\* Lines 245-268 without the break.
VisitedAll(unprocessed, outcomes) == unprocessed

\* Lines 245-268: the paths the loop comes to, given the fates it meets.
Visited(unprocessed, outcomes) == SubSeq(unprocessed, 1, Len(outcomes))

\* Lines 256-264 never taken.
LoadedNothing(unprocessed, outcomes) == ""

\* The path the loop breaks at, "" when it runs to the end.
Loaded(unprocessed, outcomes) ==
  IF outcomes # <<>> /\ outcomes[Len(outcomes)] = "ok"
  THEN unprocessed[Len(outcomes)]
  ELSE ""

\* Line 272: state["completed"]
CompletedFlag(processed, total_count) == Cardinality(processed) >= total_count

\* The runs of a loop that breaks at the first missing file (lines 247-251
\* with break for continue).
FateRunsStopAtMissing(n) ==
  { o \in UNION {[1..k -> Fates] : k \in 1..n} :
      /\ \A i \in 1..(Len(o) - 1) : o[i] = "fail"
      /\ o[Len(o)] # "fail" \/ Len(o) = n }

\* The fates a run of the loop over n paths can meet: failures and missing
\* files up to the first load that succeeds.
FateRuns(n) ==
  { o \in UNION {[1..k -> Fates] : k \in 1..n} :
      /\ \A i \in 1..(Len(o) - 1) : o[i] # "ok"
      /\ o[Len(o)] = "ok" \/ Len(o) = n }

FateRunsOf == [n \in 0..Cardinality(Universe) |-> FateRuns(n)]

\* The entries deleted between the scan and their turn in the loop.
Vanished(dsk, unprocessed, outcomes) ==
  { e \in dsk : \E i \in 1..Len(outcomes) :
                  outcomes[i] = "gone" /\ e.path = unprocessed[i] }

\* load_next_image, lines 191-289.  outcomes are the fates the loop meets,
\* wr the outcomes of the reset writes, wf the outcome of the last write.
\* The value is the file system, the store and the result it leaves.
load_next_image(dsk, st, args, outcomes, wr, wf) ==
  IF IsInvalid(dsk, args)
  THEN [disk |-> dsk, store |-> st,
        res |-> Result("Invalid", args, "none", FALSE, "", 0, 0, FALSE, <<>>, <<>>, <<>>)]
  ELSE
  LET d == args.directory_path
      all_images == ScanFor(dsk, args)
      total_count == Len(all_images)
  IN  IF total_count = 0
      THEN [disk |-> dsk, store |-> st,
            res |-> Result("Empty", args, "none", FALSE, "", 0, 0, FALSE, <<>>, <<>>, <<>>)]
      ELSE
      LET loaded == load_state(st, d)
      IN  IF loaded.kind # "object"
          \* line 219: a list has no get(): AttributeError
          THEN [disk |-> dsk, store |-> st,
                res |-> Result("Raised", args, st[StateFileOf[d]].kind, FALSE, "", 0, 0, FALSE, <<>>, <<>>, <<>>)]
          ELSE
          LET state == StateAfterResets(loaded, args)
              st1 == StoreAfterResets(st, d, wr)
          IN  IF "processed_files" \in state.keys /\ ~state.pf_list
              \* line 226: set() of what is no list of strings: TypeError
              THEN [disk |-> dsk, store |-> st1,
                    res |-> Result("Raised", args, st[StateFileOf[d]].kind, FALSE, "", 0, 0, FALSE, <<>>, <<>>, wr)]
              ELSE
              LET processed_files == ProcessedOf(state)
                  unprocessed_images == Unprocessed(all_images, processed_files)
              IN  IF unprocessed_images = <<>>
                  \* lines 232-237
                  THEN [disk |-> dsk,
                        store |-> save_state(st1, d,
                                    [state EXCEPT !.completed = TRUE,
                                                  !.keys = @ \cup {"completed"}], wf),
                        res |-> Result("AllProcessed", args, st[StateFileOf[d]].kind, FALSE, "",
                                       Cardinality(processed_files), total_count, FALSE,
                                       <<>>, <<>>, wr \o <<wf>>)]
                  \* lines 239-289
                  ELSE
                  LET visited == Visited(unprocessed_images, outcomes)
                      current_image_path == Loaded(unprocessed_images, outcomes)
                      processed_after == processed_files \cup Range(visited)
                  IN  [disk |-> dsk \ Vanished(dsk, unprocessed_images, outcomes),
                       store |-> save_state(st1, d,
                                   [state EXCEPT
                                      !.processed_files = processed_after,
                                      !.completed = CompletedFlag(processed_after, total_count),
                                      !.keys = @ \cup {"processed_files", "completed"}], wf),
                       res |-> Result(IF current_image_path = "" THEN "Exhausted"
                                                                   ELSE "Advancing",
                                      args, st[StateFileOf[d]].kind,
                                      current_image_path # "", current_image_path,
                                      Cardinality(processed_after), total_count,
                                      current_image_path # "",
                                      visited, outcomes, wr \o <<wf>>)]

(***************************************************************************)
(* The state machine                                                       *)
(***************************************************************************)

\* The bound of the model: the invocations of a followed run.
MaxCalls == 4

\* The state files an earlier run may have left: none; one cut off in the
\* middle of a write; JSON that is no object; a legacy record; an object
\* whose processed_files is no list; the record the other directory of the
\* same key left when it was done.
LegacyRecord == Content("object", {"current_index"}, {}, TRUE, "", FALSE, 3)
BadListRecord ==
  Content("object", {"processed_files", "directory_path", "completed"},
          {}, FALSE, "/a/b", FALSE, 0)
ForeignRecord ==
  Content("object", {"processed_files", "directory_path", "completed"},
          {"/a_b/z.png"}, TRUE, "/a_b", TRUE, 0)

InitialContents ==
  {Absent, Corrupt, Scalar, Array, LegacyRecord, BadListRecord, ForeignRecord}

ArgSets ==
  [directory_path : DirArgs, process_subdirectories : {"enable", "disable"},
   reset_on_directory_change : {"enable", "disable"}, reset_progress : {"false", "true"}]

\* The arguments of a run on one directory that never asks for a reset.
RunArgs == {a \in ArgSets : a.directory_path = "/a/b" /\ a.reset_progress = "false"}

\* The arguments that leave the subdirectories out of the scan.
FlatArgs == {a \in ArgSets : a.process_subdirectories = "disable"}

(***************************************************************************)
(* hist is what the properties need of the past.                           *)
(*   last       whether the last step was an invocation ("call") or a      *)
(*              change of the directories from outside ("change")          *)
(*   added      the entries put into the directories since an invocation   *)
(*              reported "all processed"                                   *)
(*   removed    whether an entry was deleted since then                    *)
(*   grew       the entry put in, when that was the one change between an  *)
(*              invocation that reported "all processed" and the last one  *)
(* and in a followed run (tracked), from the initial state:                *)
(*   ncalls     the invocations so far                                     *)
(*   attempted  the paths the loop came to (loaded, failed or missing)     *)
(*   faults     a write of the record did not succeed, or the state file   *)
(*              read was cut off                                           *)
(*   failures   a candidate failed to load                                 *)
(*   changed    the directories were changed from outside, between         *)
(*              invocations or between the scan and the loop               *)
(*   fresh      there was no state file at the start                       *)
(***************************************************************************)
NoHist ==
  [last |-> "none", added |-> {}, removed |-> FALSE, grew |-> {},
   tracked |-> FALSE, ncalls |-> 0, attempted |-> {}, faults |-> FALSE,
   failures |-> FALSE, changed |-> FALSE, fresh |-> FALSE]

\* hist after an invocation that read content and gave r.
HistAfter(h, r, content) ==
  LET g == [h EXCEPT !.last = "call", !.added = {}, !.removed = FALSE,
                     !.grew = IF ~h.removed /\ Cardinality(h.added) = 1
                              THEN h.added ELSE {}]
  IN  IF h.tracked
      THEN [g EXCEPT
              !.ncalls = @ + 1,
              !.attempted = @ \cup Range(r.visited),
              !.faults = @ \/ (\E i \in 1..Len(r.writes) : r.writes[i] # "ok")
                           \/ (r.kind \notin {"Invalid", "Empty"} /\ content.kind = "corrupt"),
              !.failures = @ \/ (\E i \in 1..Len(r.outcomes) : r.outcomes[i] = "fail"),
              !.changed = @ \/ (\E i \in 1..Len(r.outcomes) : r.outcomes[i] = "gone")]
      ELSE g

\* hist after the entries plus were put in and the entries minus deleted,
\* r the result of the last invocation.
HistAfterChange(h, r, plus, minus) ==
  [h EXCEPT !.last = "change",
            !.changed = h.tracked,
            !.added = IF r.kind = "AllProcessed" THEN @ \cup plus ELSE {},
            !.removed = r.kind = "AllProcessed" /\ (@ \/ minus # {})]

\* One invocation of load_next_image, its arguments from argset and the
\* outcomes of its writes from ios.
Call(argset, ios) ==
  \E args \in argset :
    LET all_images == ScanFor(disk, args)
        early == IsInvalid(disk, args) \/ all_images = <<>>
        content == IF early THEN Absent ELSE store[StateFileOf[args.directory_path]]
        loaded == IF early THEN Absent ELSE load_state(store, args.directory_path)
        stops == early \/ loaded.kind # "object"
        state == StateAfterResets(loaded, args)
        unprocessed == Unprocessed(all_images, ProcessedOf(state))
        raises == "processed_files" \in state.keys /\ ~state.pf_list
    IN  \E wr \in [1..(IF stops THEN 0 ELSE ResetWrites(loaded, args)) -> ios] :
        \E wf \in (IF stops \/ raises THEN {"ok"} ELSE ios) :
        \E outcomes \in (IF stops \/ raises THEN {<<>>}
                         ELSE FateRunsOf[Len(unprocessed)] \cup
                              (IF unprocessed = <<>> THEN {<<>>} ELSE {})) :
        \E out \in {load_next_image(disk, store, args, outcomes, wr, wf)} :
          /\ \A i \in 1..Len(outcomes) :
               outcomes[i] = "ok" =>
                 \E e \in disk : e.path = unprocessed[i] /\ e.kind = "file"
          /\ disk' = out.disk
          /\ store' = out.store
          /\ res' = out.res
          /\ hist' = HistAfter(hist, out.res, content)

\* The host invokes load_next_image; the writes of the record succeed.
Invoke == Call(FlatArgs, {"ok"})

\* The host invokes it in a followed run, which ends at the first write that
\* does not succeed.
InvokeRun == hist.ncalls < MaxCalls /\ ~hist.faults /\ Call(RunArgs, WriteOutcomes)

\* Between invocations, a file is put into a directory from outside.
AddEntry ==
  \E e \in Universe \ disk :
    /\ disk' = disk \cup {e}
    /\ hist' = HistAfterChange(hist, res, {e}, {})
    /\ UNCHANGED <<store, res>>

\* Between invocations, a file is deleted from outside.
RemoveEntry ==
  \E e \in disk \ StaticEntries :
    /\ disk' = disk \ {e}
    /\ hist' = HistAfterChange(hist, res, {}, {e})
    /\ UNCHANGED <<store, res>>

InitFiles ==
  /\ disk \in {StaticEntries \cup S : S \in SUBSET (Universe \ StaticEntries)}
  /\ store \in [Keys -> InitialContents]
  /\ res = NoResult

Init == InitFiles /\ hist = NoHist

InitRun ==
  /\ InitFiles
  /\ hist = [NoHist EXCEPT !.tracked = TRUE,
                           !.fresh = \A k \in Keys : store[k] = Absent]

Next == Invoke \/ AddEntry \/ RemoveEntry

NextRun == InvokeRun \/ AddEntry \/ RemoveEntry

\* Any invocations, in any state the files can be in.
Spec == Init /\ [][Next]_vars

\* A run of invocations on one directory, none asking for a reset.
SpecRun == InitRun /\ [][NextRun]_vars

(***************************************************************************)
(* Properties                                                              *)
(***************************************************************************)

\* The entries of a directory that pass the extension filter: the candidates
\* of a scan that leaves the subdirectories out, before they are sorted.
Candidates(dsk, directory_path) ==
  {x \in dsk : x.dir = directory_path /\ x.name \in ImageNames}

\* The paths that come before a path in the order of the strings.
PathsBefore ==
  [p \in Paths |->
     LET e == CHOOSE x \in Entries : x.path = p
     IN  {c.path : c \in {x \in Entries :
                            StrLess(EntryPathChars(x), EntryPathChars(e))}}]

\* The processed_files of the record stored for a directory, {} when the
\* state file holds no object.
StoredProcessed(st, directory_path) ==
  LET content == st[StateFileOf[directory_path]]
  IN  IF content.kind = "object" THEN content.processed_files ELSE {}

\* A followed run that began without a state file, in which so far every
\* write succeeded, every file loaded and nothing changed the directories.
CleanRun ==
  /\ hist.tracked /\ hist.fresh
  /\ ~hist.faults /\ ~hist.failures /\ ~hist.changed

C2_AttemptedAtMostOnce ==
  [][(hist.tracked /\ hist'.ncalls = hist.ncalls + 1 /\ ~hist'.faults) =>
       Range(res'.visited) \cap hist.attempted = {}]_vars

C4_FirstLoadableWins ==
  [][(hist'.last = "call" /\ res'.kind \in {"Advancing", "Exhausted"}) =>
       LET d == res'.directory_path
           cands == Candidates(disk, d)
           v == res'.visited
           o == res'.outcomes
           n == Len(v)
           Before(p, q) == p \in PathsBefore[q]
           before == StoredProcessed(store, d)
           after == StoredProcessed(store', d)
       IN  /\ n >= 1 /\ Len(o) = n
           /\ Range(v) \subseteq {c.path : c \in cands}
           /\ \A i, j \in 1..n : i < j => Before(v[i], v[j])
           /\ \A i \in 1..n : o[i] = "ok" <=> (i = n /\ res'.image)
           /\ res'.file_path = (IF res'.image THEN v[n] ELSE "")
           /\ Range(v) \subseteq after
           /\ \A c \in cands : Before(c.path, v[n]) => c.path \in after
           /\ \A c \in cands :
                c.path \notin Range(v) =>
                  /\ c.path \in after => c.path \in before
                  /\ Before(c.path, v[n]) => c.path \in before
           /\ ~res'.image => \A c \in cands : c.path \in after]_vars

\* C4 witness: the first of two candidates failed to load and the second was
\* returned.
C4_Witness ==
  /\ hist.last = "call" /\ ~hist.tracked
  /\ res.kind = "Advancing" /\ res.outcomes = <<"fail", "ok">>
  /\ res.file_path = res.visited[2]

\* C5 (amended): after an invocation reported "all processed", when the one
\* change since is a new eligible file in the directory whose path is not in
\* the record, the next invocation on the directory does not report "all
\* processed" but enters the loop; with neither reset asked for, the new file
\* is the one it comes to first; its completed output is true exactly when it
\* returns a file, so it is true when the new file loads.
C5_GrowthAfterCompletion ==
  [][\A x \in Universe :
       (/\ res.kind = "AllProcessed" /\ hist.added = {x} /\ ~hist.removed
        /\ x \in Candidates(disk, res.directory_path)
        /\ x.path \notin StoredProcessed(store, res.directory_path)
        /\ hist'.last = "call" /\ res'.directory_path = res.directory_path) =>
         /\ res'.kind \in {"Advancing", "Exhausted"}
         /\ res'.visited # <<>>
         /\ res'.completed <=> res'.image
         /\ (res'.reset_progress = "false" /\ res'.reset_on_directory_change = "disable") =>
              /\ res'.visited[1] = x.path
              /\ res'.outcomes[1] = "ok" => res'.completed /\ res'.file_path = x.path]_vars

\* C5 witness: the invocation after one file was added past "all processed"
\* returned that file, with completed true.
C5_Witness ==
  /\ hist.last = "call" /\ ~hist.tracked
  /\ \E x \in hist.grew : hist.grew = {x} /\ res.file_path = x.path
  /\ res.kind = "Advancing" /\ res.completed

\* C5 as stated: after "all processed", one new eligible file makes the next
\* invocation enter the loop and report completed = false.
C5_AsStated ==
  [][\A x \in Universe :
       (/\ res.kind = "AllProcessed" /\ hist.added = {x} /\ ~hist.removed
        /\ x \in Candidates(disk, res.directory_path)
        /\ hist'.last = "call" /\ res'.directory_path = res.directory_path) =>
         /\ res'.visited # <<>>
         /\ ~res'.completed]_vars

\* C6: after every invocation that persists the record, its completed is
\* true exactly when every candidate of the invocation's scan is in its
\* processed_files.
C6_CompletedIsSnapshot ==
  [][(hist'.last = "call" /\ res'.kind \in {"AllProcessed", "Advancing", "Exhausted"}) =>
       LET content == store'[StateFileOf[res'.directory_path]]
       IN  /\ content.kind = "object"
           /\ content.completed <=>
                \A c \in Candidates(disk, res'.directory_path) :
                  c.path \in content.processed_files]_vars

\* C7: of two consecutive invocations on the same directory, the second not
\* passing reset_progress = "true", the record after the second holds every
\* path the record after the first held.
C7_ProcessedNeverShrinks ==
  [][(/\ hist'.last = "call" /\ res.kind # "none"
      /\ res'.directory_path = res.directory_path
      /\ res'.directory_path \in ExistingDirs
      /\ res'.reset_progress = "false") =>
       StoredProcessed(store, res'.directory_path)
         \subseteq StoredProcessed(store', res'.directory_path)]_vars

\* C8: whatever the arguments, the fates of the loads and the content of the
\* state file, an invocation raises nothing: it ends in one of the five
\* results.
C8_NothingRaises ==
  hist.last = "call" =>
    res.kind \in {"Invalid", "Empty", "AllProcessed", "Advancing", "Exhausted"}

\* C9: an invocation on a directory_path that is empty or does not exist ends
\* as Invalid, one on a directory without eligible file as Empty; both return
\* no payload, no path and the counts (0, 0), and leave every state file as
\* it was, whatever reset options they were passed.
C9_EarlyReturnsTouchNothing ==
  [][hist'.last = "call" =>
       LET d == res'.directory_path
           invalid == d = "" \/ d \notin ExistingDirs
           empty == ~invalid /\ Candidates(disk, d) = {}
       IN  /\ invalid <=> res'.kind = "Invalid"
           /\ empty <=> res'.kind = "Empty"
           /\ (invalid \/ empty) =>
                /\ store' = store
                /\ ~res'.image /\ res'.file_path = "" /\ res'.filename = ""
                /\ res'.current_index = 0 /\ res'.total_count = 0
                /\ ~res'.completed]_vars

\* C9 witness: an invocation that passed both resets found no eligible file
\* and a record with processed files is still there.
C9_Witness ==
  /\ hist.last = "call" /\ res.kind = "Empty"
  /\ res.reset_progress = "true" /\ res.reset_on_directory_change = "enable"
  /\ StoredProcessed(store, res.directory_path) # {}

\* C10: when the state file of the directory is missing or is no JSON,
\* load_state gives the fresh record of the requested directory, and an
\* invocation that has candidates enters the loop at the first of them.
C10_UnreadableIsFresh ==
  [][(/\ hist'.last = "call"
      /\ res'.directory_path \in ExistingDirs
      /\ Candidates(disk, res'.directory_path) # {}
      /\ store[StateFileOf[res'.directory_path]].kind \in {"absent", "corrupt"}) =>
       LET d == res'.directory_path
           cands == Candidates(disk, d)
       IN  /\ load_state(store, d) =
                Content("object", {"processed_files", "directory_path", "completed"},
                        {}, TRUE, d, FALSE, 0)
           /\ res'.kind \in {"Advancing", "Exhausted"}
           /\ \E e \in cands :
                /\ res'.visited[1] = e.path
                /\ \A c \in cands \ {e} : e.path \in PathsBefore[c.path]]_vars

\* C10 witness: an invocation read a state file that was no JSON and returned
\* the first of two candidates.
C10_Witness ==
  /\ hist.last = "call" /\ res.read = "corrupt"
  /\ res.kind = "Advancing" /\ res.total_count = 2 /\ res.current_index = 1
  /\ res.filename = "a.png"

\* C11: when a candidate the scan found is gone at its turn in the loop, the
\* invocation puts its path into the record and goes on: the next candidate
\* is attempted in the same call, or none was left and the call ends with
\* every candidate in the record; current_index counts the record with the
\* skipped path and the loaded one in it.
C11_MissingIsSkipped ==
  [][(hist'.last = "call" /\ res'.kind \in {"Advancing", "Exhausted"}) =>
       LET d == res'.directory_path
           cands == Candidates(disk, d)
           v == res'.visited
           o == res'.outcomes
           after == StoredProcessed(store', d)
       IN  \A i \in 1..Len(o) :
             o[i] = "gone" =>
               /\ v[i] \in {c.path : c \in cands}
               /\ v[i] \notin {e.path : e \in disk'}
               /\ v[i] \in after
               /\ i < Len(o) \/ (res'.kind = "Exhausted"
                                  /\ \A c \in cands : c.path \in after)
               /\ res'.current_index = Cardinality(after)
               /\ res'.total_count = Cardinality(cands)
               /\ res'.image => res'.file_path \in after \ {v[i]}]_vars

\* C11 witness: of two candidates the first was gone and the second was
\* returned, with the counts (2, 2).
C11_Witness ==
  /\ hist.last = "call" /\ ~hist.tracked
  /\ res.outcomes = <<"gone", "ok">> /\ res.kind = "Advancing"
  /\ res.current_index = 2 /\ res.total_count = 2

\* C12: in every result the completed output is true exactly when a payload
\* is returned, which is exactly when file_path and filename are not empty;
\* it is false in every result that is Invalid, Empty, AllProcessed or
\* Exhausted, whatever the stored record's completed is.
C12_CompletedIsItemAvailable ==
  (hist.last = "call" /\ res.kind # "Raised") =>
    /\ res.completed <=> res.image
    /\ res.image <=> res.file_path # ""
    /\ res.file_path # "" <=> res.filename # ""
    /\ res.kind \in {"Invalid", "Empty", "AllProcessed", "Exhausted"} => ~res.completed
    /\ res.kind = "Advancing" => res.completed

\* C12 witness: an invocation reported "all processed", completed false,
\* and left a record whose completed is true.
C12_Witness ==
  /\ hist.last = "call" /\ ~hist.tracked
  /\ res.kind = "AllProcessed" /\ ~res.completed
  /\ store[StateFileOf[res.directory_path]].completed

(***************************************************************************)
(* The state store by itself                                               *)
(*                                                                         *)
(* load_state and reset_state over the contents a state file can have,     *)
(* and invocations on one directory that start from them.  Here res is the *)
(* value of the last call: of load_state (state: what it returned), of     *)
(* reset_state (state: what it returned; again: the call before was a      *)
(* reset_state of the same directory) or of load_next_image.               *)
(***************************************************************************)

\* The bound of the model: the largest index a legacy record holds.
MaxIndex == 2

FieldNames == {"processed_files", "directory_path", "completed", "current_index"}

\* The JSON objects a state file can hold; a field that is not there has its
\* default.
StoredObjects ==
  { Content("object", ks,
            IF "processed_files" \in ks /\ l THEN pf ELSE {},
            "processed_files" \in ks => l,
            IF "directory_path" \in ks THEN dp ELSE "",
            "completed" \in ks /\ c,
            IF "current_index" \in ks THEN ci ELSE 0) :
      ks \in SUBSET FieldNames, pf \in SUBSET {"/a/b/a.png", "/a/b/b.PNG"},
      l \in BOOLEAN, dp \in ExistingDirs, c \in BOOLEAN, ci \in 0..MaxIndex }

StoredContents == {Absent, Corrupt, Scalar, Array} \cup StoredObjects

\* The arguments of the invocations that follow: on "/a/b", without
\* reset_progress.
StoreArgs ==
  {a \in FlatArgs : a.directory_path = "/a/b" /\ a.reset_progress = "false"}

\* load_state is called.
Load ==
  \E d \in ExistingDirs :
    /\ res' = [kind |-> "load_state", directory_path |-> d,
               state |-> load_state(store, d)]
    /\ UNCHANGED <<disk, store, hist>>

\* reset_state is called.
Reset ==
  \E d \in ExistingDirs, outcome \in WriteOutcomes :
    /\ store' = reset_state(store, d, outcome)
    /\ res' = [kind |-> "reset_state", directory_path |-> d,
               state |-> FreshState(d), writes |-> <<outcome>>,
               again |-> res.kind = "reset_state" /\ res.directory_path = d]
    /\ UNCHANGED <<disk, hist>>

\* load_next_image is called on what the state file holds.
InvokeStored == Call(StoreArgs, {"ok"})

InitStore ==
  /\ disk = Universe
  /\ store \in [Keys -> StoredContents]
  /\ res = NoResult
  /\ hist = NoHist

NextStore == Load \/ Reset \/ InvokeStored

\* The state store, and invocations on the contents it can hold.
SpecStore == InitStore /\ [][NextStore]_vars

\* C13: reset_state returns the record with processed_files empty,
\* directory_path the given directory and completed false, and stores it;
\* called again for the same directory, its write meeting the same outcome,
\* it returns the same state and leaves the state file as the first call
\* left it; so do the two resets one invocation can make.
C13_ResetIsIdempotent ==
  [][res'.kind = "reset_state" =>
       LET d == res'.directory_path
           o == res'.writes[1]
           empty == Content("object", {"processed_files", "directory_path", "completed"},
                            {}, TRUE, d, FALSE, 0)
       IN  /\ res'.state = empty
           /\ o = "ok" => store'[StateFileOf[d]] = empty
           /\ (res'.again /\ res.writes = res'.writes) =>
                store' = store /\ res'.state = res.state
           /\ StoreAfterResets(store, d, <<o, o>>) = store']_vars

\* C13 witness: reset_state was called twice in a row for a directory, both
\* writes succeeding, and the record is the empty one.
C13_Witness ==
  /\ res.kind = "reset_state" /\ res.again /\ res.writes = <<"ok">>
  /\ res.directory_path = "/a/b"
  /\ store[StateFileOf["/a/b"]] = FreshState("/a/b")

\* C14: load_state of a record that has current_index and no
\* processed_files gives the record with processed_files empty and
\* current_index removed, the other fields as they were, whatever the index;
\* a record that has processed_files is returned as it is; an invocation on
\* a legacy record enters the loop at the first candidate.
C14_LegacyMigration ==
  [][LET d == res'.directory_path
         f == store[StateFileOf[d]]
         legacy == /\ f.kind = "object" /\ "current_index" \in f.keys
                   /\ "processed_files" \notin f.keys
         cands == Candidates(disk, d)
     IN  /\ res'.kind = "load_state" =>
              /\ legacy =>
                   res'.state =
                     Content("object",
                             (f.keys \ {"current_index"}) \cup {"processed_files"},
                             {}, TRUE, f.directory_path, f.completed, 0)
              /\ (f.kind = "object" /\ "processed_files" \in f.keys) =>
                   res'.state = f
         /\ (res'.kind \notin {"load_state", "reset_state"} /\ legacy /\ cands # {}) =>
              /\ res'.kind \in {"Advancing", "Exhausted"}
              /\ \E e \in cands :
                   /\ res'.visited[1] = e.path
                   /\ \A c \in cands \ {e} : e.path \in PathsBefore[c.path]
              /\ res'.current_index = Len(res'.visited)]_vars

\* C14 witness: load_state returned the migrated record of a legacy record
\* whose index was not 0.
C14_Witness ==
  /\ res.kind = "load_state"
  /\ LET f == store[StateFileOf[res.directory_path]]
     IN  /\ f.kind = "object" /\ f.keys = {"current_index", "completed"}
         /\ f.current_index > 0
  /\ res.state.keys = {"processed_files", "completed"}
  /\ res.state.processed_files = {}

(***************************************************************************)
(* The scans by themselves                                                 *)
(*                                                                         *)
(* scan_directory_for_images and scan_directory_recursive over directories *)
(* that hold subdirectories.  Here res is the value of the last scan.      *)
(***************************************************************************)

\* The directory trees: an entry is in a directory that is there.
Trees ==
  { t \in {StaticEntries \cup S : S \in SUBSET (Entries \ StaticEntries)} :
      \A e \in t : e.dir \in ExistingDirs \/ \E p \in t : p.kind = "dir" /\ p.path = e.dir }

\* scan_directory_for_images is called.
ScanFlat ==
  \E d \in DirArgs :
    /\ res' = [kind |-> "scan_directory_for_images", directory_path |-> d,
               images |-> scan_directory_for_images(disk, d)]
    /\ UNCHANGED <<disk, store, hist>>

\* scan_directory_recursive is called.
ScanRecursive ==
  \E d \in DirArgs :
    /\ res' = [kind |-> "scan_directory_recursive", directory_path |-> d,
               images |-> scan_directory_recursive(disk, d)]
    /\ UNCHANGED <<disk, store, hist>>

InitScan ==
  /\ disk \in Trees
  /\ store = [k \in Keys |-> Absent]
  /\ res = NoResult
  /\ hist = NoHist

NextScan == ScanFlat \/ ScanRecursive

\* The scans, over any tree.
SpecScan == InitScan /\ [][NextScan]_vars

\* C15: scan_directory_for_images returns exactly the immediate entries of
\* the directory that are files and whose name ends, whatever the case, with
\* an image extension, as full paths in the order of the strings; an entry
\* that is a directory is no candidate.
C15_FlatScanKeepsFiles ==
  res.kind = "scan_directory_for_images" =>
    LET want == {e \in disk : /\ e.dir = res.directory_path
                              /\ e.kind = "file"
                              /\ HasImageExtension(e.name)}
        images == res.images
    IN  /\ Range(images) = {e.path : e \in want}
        /\ Len(images) = Cardinality(want)
        /\ \A i, j \in 1..Len(images) : i < j => images[i] \in PathsBefore[images[j]]
        /\ \A e \in disk : e.kind = "dir" => e.path \notin Range(images)

(***************************************************************************)
(* The change-detection hook                                               *)
(*                                                                         *)
(* IS_CHANGED returns random.random(): a draw that depends neither on the  *)
(* arguments nor on the draws before.  The floats it can give stand as     *)
(* 0..MaxRandom - 1.  Here res is the last call: its arguments, the value  *)
(* returned, and previous: the value the call before returned, if any.     *)
(***************************************************************************)

\* The bound of the model: how many values random.random() can give.
MaxRandom == 4

RandomValues == 0..(MaxRandom - 1)

\* The host calls IS_CHANGED.
IS_CHANGED ==
  \E args \in ArgSets, value \in RandomValues :
    /\ res' = [kind |-> "IS_CHANGED",
               directory_path |-> args.directory_path,
               process_subdirectories |-> args.process_subdirectories,
               reset_on_directory_change |-> args.reset_on_directory_change,
               reset_progress |-> args.reset_progress,
               value |-> value,
               previous |-> IF res.kind = "IS_CHANGED" THEN {res.value} ELSE {}]
    /\ UNCHANGED <<disk, store, hist>>

InitHook ==
  /\ disk = StaticEntries
  /\ store = [k \in Keys |-> Absent]
  /\ res = NoResult
  /\ hist = NoHist

NextHook == IS_CHANGED

\* The calls of the hook.
SpecHook == InitHook /\ [][NextHook]_vars

\* C16: every call of IS_CHANGED returns a value that differs from the one
\* the call before returned, whatever the arguments.
C16_HookAlwaysDiffers ==
  res.kind = "IS_CHANGED" => \A v \in res.previous : res.value # v

(***************************************************************************)
(* Invocations that interleave                                             *)
(*                                                                         *)
(* Three host processes invoke load_next_image once each on "/a/b".  An    *)
(* invocation is two steps, with nothing held in between: Begin, up to the *)
(* read of the state file (lines 194-226), and Finish, the loop and the    *)
(* write (lines 229-289).  Here hist[p] is what process p holds: where it  *)
(* is (pc), its arguments and the content it read (view); res[p] is the    *)
(* result p returned.  Every file is there throughout and every write      *)
(* succeeds.                                                               *)
(***************************************************************************)

Procs == {"p", "q", "r"}

Idle == [pc |-> "idle", args |-> NoArgs, view |-> Absent]

\* The invocation of p as load_next_image computes it from what p read.
OwnRun(p, outcomes) ==
  load_next_image(disk, [k \in Keys |-> hist[p].view], hist[p].args, outcomes, <<>>, "ok")

\* Lines 194-226: p scans and reads the state file.
Begin(p) ==
  /\ hist[p].pc = "idle"
  /\ \E args \in StoreArgs :
       /\ ScanFor(disk, args) # <<>>
       /\ hist' = [hist EXCEPT ![p] =
                     [pc |-> "loaded", args |-> args,
                      view |-> store[StateFileOf[args.directory_path]]]]
  /\ UNCHANGED <<disk, store, res>>

\* Lines 229-289: p runs the loop on the state it read, writes the record
\* and returns.
Finish(p) ==
  /\ hist[p].pc = "loaded"
  /\ LET d == hist[p].args.directory_path
         state == load_state([k \in Keys |-> hist[p].view], d)
         unprocessed == Unprocessed(ScanFor(disk, hist[p].args), ProcessedOf(state))
     IN  /\ ResetWrites(state, hist[p].args) = 0
         /\ \E outcomes \in {o \in FateRunsOf[Len(unprocessed)] \cup
                                    (IF unprocessed = <<>> THEN {<<>>} ELSE {}) :
                               \A i \in 1..Len(o) : o[i] # "gone"} :
            \E out \in {OwnRun(p, outcomes)} :
              /\ store' = save_state(store, d, out.store[StateFileOf[d]], "ok")
              /\ res' = [res EXCEPT ![p] = out.res]
              /\ hist' = [hist EXCEPT ![p].pc = "done"]
  /\ UNCHANGED disk

InitRace ==
  /\ disk \in {StaticEntries \cup S : S \in SUBSET (Universe \ StaticEntries)}
  /\ store = [k \in Keys |-> Absent]
  /\ res = [p \in Procs |-> NoResult]
  /\ hist = [p \in Procs |-> Idle]

NextRace == \E p \in Procs : Begin(p) \/ Finish(p)

\* Invocations of several processes on one directory.
SpecRace == InitRace /\ [][NextRace]_vars

\* C17: nothing guards the record between the read and the write of an
\* invocation: the write leaves in the file the processed_files the
\* invocation read with the paths it came to, and nothing else, so what
\* another invocation wrote in between is lost; and two invocations that
\* read the same record and meet the same fates return the same file.
C17_LastWriteWins ==
  [][\A p \in Procs :
       (hist[p].pc = "loaded" /\ hist'[p].pc = "done") =>
         LET d == hist[p].args.directory_path
             view == hist[p].view
             mine == (IF view.kind = "object" THEN view.processed_files ELSE {})
                       \cup Range(res'[p].visited)
         IN  /\ StoredProcessed(store', d) = mine
             /\ \A path \in StoredProcessed(store, d) \ mine :
                  path \notin StoredProcessed(store', d)
             /\ \A q \in Procs \ {p} :
                  (/\ hist[q].pc = "done" /\ hist[q].view = view
                   /\ res[q].outcomes = res'[p].outcomes) =>
                    res'[p].file_path = res[q].file_path]_vars

\* C17 witness: all three have returned; p and q read the record before
\* either wrote it and returned the same file; the record lacks the path
\* that r came to.
C17_Witness ==
  /\ \A p \in Procs : hist[p].pc = "done"
  /\ hist["p"].view = hist["q"].view
  /\ res["p"].file_path # "" /\ res["p"].file_path = res["q"].file_path
  /\ \E path \in Range(res["r"].visited) :
       path \notin StoredProcessed(store, "/a/b")

(***************************************************************************)
(* Writes of the record that fail                                          *)
(***************************************************************************)

\* The last write of the invocation that gave r did not succeed.
LastWriteFailed(r) == r.writes # <<>> /\ r.writes[Len(r.writes)] # "ok"

\* r is what the invocation would have returned had its writes succeeded.
SameAsWritten(dsk, st, r) ==
  \E args \in RunArgs :
    /\ args.directory_path = r.directory_path
    /\ args.reset_on_directory_change = r.reset_on_directory_change
    /\ r = [load_next_image(dsk, st, args, r.outcomes,
                            [i \in 1..(Len(r.writes) - 1) |-> "ok"], "ok").res
              EXCEPT !.writes = r.writes]

\* C18: an invocation whose write of the record fails raises nothing and
\* returns what it would have returned had the write succeeded; what the
\* next invocation reads is the older record when the file could not be
\* opened, and a record that does not parse, read as a fresh state, when the
\* write broke off.
C18_WriteFailureIsLossy ==
  [][(hist'.ncalls = hist.ncalls + 1 /\ LastWriteFailed(res')) =>
       LET d == res'.directory_path
           last == res'.writes[Len(res'.writes)]
       IN  /\ res'.kind \in {"AllProcessed", "Exhausted", "Advancing"}
           /\ SameAsWritten(disk, store, res')
           /\ (last = "open_failed" /\ Len(res'.writes) = 1) => store' = store
           /\ last = "partial" =>
                /\ store'[StateFileOf[d]].kind = "corrupt"
                /\ load_state(store', d) = FreshState(d)]_vars

\* C18 witness: the write of the second invocation broke off; the paths the
\* first one recorded are no longer in the state file.
C18_Witness ==
  /\ hist.tracked /\ hist.ncalls = 2 /\ res.kind = "Advancing"
  /\ res.writes = <<"partial">>
  /\ store[StateFileOf[res.directory_path]].kind = "corrupt"
  /\ hist.attempted \ Range(res.visited) # {}

\* C18 as stated: after any write that fails the next invocation finds the
\* processed_files of the older record.
C18_AsStated ==
  [][(hist'.ncalls = hist.ncalls + 1 /\ LastWriteFailed(res') /\ Len(res'.writes) = 1) =>
       /\ SameAsWritten(disk, store, res')
       /\ ProcessedOf(load_state(store', res'.directory_path))
            = ProcessedOf(load_state(store, res'.directory_path))]_vars

(***************************************************************************)
(* Auto-reset                                                              *)
(***************************************************************************)

\* The invocation that gave r wrote the record twice: reset_state (line
\* 220) and the write at its end.
ResetWritten(r) == Len(r.writes) = 2

\* C19: in a run on one directory whose reads and writes succeed, an
\* invocation that reaches the diff clears the progress it loaded, and
\* writes the cleared record, exactly when reset_on_directory_change is
\* "enable" and the directory_path of the record differs from the directory
\* passed; otherwise it goes on from the processed_files it loaded; and no
\* invocation after the first of the run loses to a reset a path the run
\* came to.
C19_AutoResetOnChangeOnly ==
  [][(/\ hist.tracked /\ hist'.ncalls = hist.ncalls + 1 /\ ~hist'.faults
      /\ res'.kind \in {"AllProcessed", "Exhausted", "Advancing"}) =>
       LET d == res'.directory_path
           loaded == load_state(store, d)
           fired == ResetWritten(res')
       IN  /\ fired <=> (/\ res'.reset_on_directory_change = "enable"
                         /\ DirectoryDiffers(loaded, d))
           /\ StoredProcessed(store', d) =
                (IF fired THEN {} ELSE ProcessedOf(loaded)) \cup Range(res'.visited)
           /\ hist.ncalls > 0 =>
                /\ ~fired
                /\ hist.attempted \cap StoredProcessed(store, d)
                     \subseteq StoredProcessed(store', d)]_vars

(***************************************************************************)
(* Two directories, one state file                                         *)
(*                                                                         *)
(* The host passes "/a/b" and "/a_b" in turn, reset_on_directory_change    *)
(* being "enable" and reset_progress "false".  Here hist is the result of  *)
(* the invocation before the last one.  The writes succeed.                *)
(***************************************************************************)

TurnArgs ==
  {a \in FlatArgs : /\ a.directory_path \in ExistingDirs
                    /\ a.reset_on_directory_change = "enable"
                    /\ a.reset_progress = "false"}

\* The host invokes load_next_image on the directory it did not pass the
\* time before.
InvokeOther ==
  \E args \in TurnArgs :
    /\ args.directory_path # res.directory_path
    /\ LET d == args.directory_path
           loaded == load_state(store, d)
           wr == IF loaded.kind # "object" THEN <<>>
                 ELSE [i \in 1..ResetWrites(loaded, args) |-> "ok"]
           unprocessed ==
             IF loaded.kind # "object" THEN <<>>
             ELSE Unprocessed(ScanFor(disk, args),
                              ProcessedOf(StateAfterResets(loaded, args)))
       IN  \E outcomes \in FateRunsOf[Len(unprocessed)] \cup
                           (IF unprocessed = <<>> THEN {<<>>} ELSE {}) :
           \E out \in {load_next_image(disk, store, args, outcomes, wr, "ok")} :
             /\ \A i \in 1..Len(outcomes) :
                  outcomes[i] = "ok" =>
                    \E e \in disk : e.path = unprocessed[i] /\ e.kind = "file"
             /\ disk' = out.disk
             /\ store' = out.store
             /\ res' = out.res
             /\ hist' = res

InitTurns == InitFiles /\ hist = NoResult

NextTurns == InvokeOther

\* Invocations that pass two directories of one state file in turn.
SpecTurns == InitTurns /\ [][NextTurns]_vars

\* The candidate that comes first in the order of the paths.
FirstCandidate(dsk, directory_path) ==
  CHOOSE c \in Candidates(dsk, directory_path) :
    \A x \in Candidates(dsk, directory_path) :
      x = c \/ c.path \in PathsBefore[x.path]

\* C20: "/a/b" and "/a_b" have one state file, its name made by putting "_"
\* for "/", "\" and ":"; when the host passes the two in turn with
\* reset_on_directory_change = "enable", an invocation that follows one
\* that wrote the record clears it, starts at the first candidate of its
\* directory, returns the first one that loads, and never reports "all
\* processed"; the record it leaves holds its directory and the paths it
\* came to, none of the other directory.
C20_SharedRecordIsResetEachTurn ==
  [][/\ get_state_file_path("/a/b") = "_a_b"
     /\ get_state_file_path("/a_b") = "_a_b"
     /\ get_state_file_path("a:\\b") = "a__b"
     /\ res.kind \in {"AllProcessed", "Exhausted", "Advancing"} =>
          LET d == res'.directory_path
              file == store'[StateFileOf[d]]
          IN  /\ d # res.directory_path
              /\ store[StateFileOf[d]].directory_path = res.directory_path
              /\ res'.kind \in {"Empty", "Exhausted", "Advancing"}
              /\ res'.kind # "Empty" =>
                   /\ ResetWritten(res')
                   /\ res'.visited[1] = FirstCandidate(disk, d).path
                   /\ \A i \in 1..(Len(res'.outcomes) - 1) : res'.outcomes[i] # "ok"
                   /\ res'.file_path \in {"", res'.visited[Len(res'.visited)]}
                   /\ res'.file_path = "" <=> res'.outcomes[Len(res'.outcomes)] # "ok"
                   /\ file.directory_path = d
                   /\ file.processed_files = Range(res'.visited)]_vars

\* C20 witness: the third invocation in turn, on "/a/b" as the first;
\* a.png, returned by the first, is returned again.
C20_Witness ==
  /\ hist.kind = "Advancing" /\ hist.directory_path = "/a_b"
  /\ hist.file_path = "/a_b/z.png" /\ ResetWritten(hist)
  /\ hist.read = "object"
  /\ res.kind = "Advancing" /\ res.directory_path = "/a/b"
  /\ res.file_path = "/a/b/a.png" /\ ResetWritten(res)
  /\ \E e \in disk : e.path = "/a/b/b.PNG"

(***************************************************************************)
(* Invocations in which nothing loads                                      *)
(***************************************************************************)

\* C21: an invocation in which no unprocessed candidate loads puts them all
\* into the record and returns no payload, completed false and no path or
\* name; the invocation after it, on the same directory with nothing
\* changed in between, reset_progress not "true" and candidates still there,
\* comes to no path and reports "all processed".
C21_ExhaustedThenAllProcessed ==
  [][/\ (hist'.last = "call" /\ res'.kind = "Exhausted") =>
          /\ ~res'.image /\ ~res'.completed
          /\ res'.file_path = "" /\ res'.filename = ""
          /\ \A i \in 1..Len(res'.outcomes) : res'.outcomes[i] # "ok"
          /\ \A c \in Candidates(disk, res'.directory_path) :
               c.path \in StoredProcessed(store', res'.directory_path)
     /\ (/\ hist.last = "call" /\ res.kind = "Exhausted"
         /\ hist'.last = "call"
         /\ res'.directory_path = res.directory_path
         /\ res'.reset_progress = "false"
         /\ Candidates(disk, res.directory_path) # {}) =>
          /\ res'.kind = "AllProcessed"
          /\ res'.visited = <<>>]_vars

(***************************************************************************)
(* Manual reset                                                            *)
(***************************************************************************)

\* C22: of two consecutive invocations on one directory that both pass
\* reset_progress = "true", the second does not clear the progress again:
\* it comes to no path of the record the first left, and the record after
\* it still holds those paths.
C22_ManualResetAppliedOnce ==
  [][(/\ hist.last = "call" /\ hist'.last = "call"
      /\ res.reset_progress = "true" /\ res'.reset_progress = "true"
      /\ res'.directory_path = res.directory_path
      /\ res.kind \in {"AllProcessed", "Exhausted", "Advancing"}
      /\ res'.kind \in {"AllProcessed", "Exhausted", "Advancing"}) =>
       /\ Range(res'.visited) \cap StoredProcessed(store, res.directory_path) = {}
       /\ StoredProcessed(store, res.directory_path)
            \subseteq StoredProcessed(store', res.directory_path)]_vars

(***************************************************************************)
(* The shape of the record                                                 *)
(***************************************************************************)

\* C23: the record an invocation writes has processed_files, a list of
\* paths, directory_path, the directory of the invocation, and completed,
\* whatever it loaded and whatever its options.
C23_WrittenRecordHasShape ==
  [][(hist'.last = "call" /\ res'.writes # <<>>) =>
       LET file == store'[StateFileOf[res'.directory_path]]
       IN  /\ file.kind = "object"
           /\ {"processed_files", "directory_path", "completed"} \subseteq file.keys
           /\ file.pf_list
           /\ file.directory_path = res'.directory_path]_vars

(***************************************************************************)
(* load_image_as_tensor                                                    *)
(*                                                                         *)
(* One call, statement by statement.  res is the frame of the call: the    *)
(* statement it is at (pc), the locals img and image_pil, which name an    *)
(* image handle or are None, and what it returned.  hist is the state of   *)
(* each handle: not made yet, open, closed by close(), or finalized by the *)
(* interpreter when nothing referred to it any more.  Any statement of the *)
(* try block can raise.                                                    *)
(***************************************************************************)

\* The handles of a call: of Image.open, of ImageOps.exif_transpose and of
\* convert("RGB"), each a new image object.
Handles == {"opened", "transposed", "rgb"}

NoHandles == [h \in Handles |-> "unmade"]

Frame(path, alpha, pc, img, image_pil, returned) ==
  [kind |-> "load_image_as_tensor", image_path |-> path, alpha |-> alpha,
   pc |-> pc, img |-> img, image_pil |-> image_pil, returned |-> returned]

\* The except clause is entered.
Raise == res' = [res EXCEPT !.pc = "except"] /\ UNCHANGED hist

\* close() of the handle a local names, if it names one.
Closed(h, local) == IF local = "None" THEN h ELSE [h EXCEPT ![local] = "closed"]

\* Line 112: img = Image.open(image_path)
ImageOpen ==
  /\ res.pc = "open"
  /\ \/ /\ \E e \in disk : e.path = res.image_path /\ e.kind = "file"
        /\ res' = [res EXCEPT !.pc = "exif_transpose", !.img = "opened"]
        /\ hist' = [hist EXCEPT !["opened"] = "open"]
     \/ Raise
  /\ UNCHANGED <<disk, store>>

\* Line 115: img = ImageOps.exif_transpose(img)
ExifTranspose ==
  /\ res.pc = "exif_transpose"
  /\ \/ /\ res' = [res EXCEPT !.pc = "convert", !.img = "transposed"]
        /\ hist' = [hist EXCEPT !["transposed"] = "open"]
     \/ Raise
  /\ UNCHANGED <<disk, store>>

\* Line 118: image_pil = img.convert("RGB")
Convert ==
  /\ res.pc = "convert"
  /\ \/ /\ res' = [res EXCEPT !.pc = "tensor", !.image_pil = "rgb"]
        /\ hist' = [hist EXCEPT !["rgb"] = "open"]
     \/ Raise
  /\ UNCHANGED <<disk, store>>

\* Lines 121-124: the array and the tensor of the image.
ToTensor ==
  /\ res.pc = "tensor"
  /\ \/ res' = [res EXCEPT !.pc = "mask"] /\ UNCHANGED hist
     \/ Raise
  /\ UNCHANGED <<disk, store>>

\* Lines 127-132: the mask, of the alpha channel if there is one.
Mask ==
  /\ res.pc = "mask"
  /\ \/ res' = [res EXCEPT !.pc = "cleanup"] /\ UNCHANGED hist
     \/ Raise
  /\ UNCHANGED <<disk, store>>

\* Lines 135-141: the handles the locals name are closed; the tensors are
\* returned.
CleanUp ==
  /\ res.pc = "cleanup"
  /\ hist' = Closed(Closed(hist, res.image_pil), res.img)
  /\ res' = [res EXCEPT !.pc = "returned", !.returned = "tensors"]
  /\ UNCHANGED <<disk, store>>

\* Lines 143-150: the same in the except clause; (None, None) is returned.
Except ==
  /\ res.pc = "except"
  /\ hist' = Closed(Closed(hist, res.image_pil), res.img)
  /\ res' = [res EXCEPT !.pc = "returned", !.returned = "None"]
  /\ UNCHANGED <<disk, store>>

\* The interpreter finalizes an open handle that no local names; when it
\* does so is not fixed by the language.
Finalize ==
  /\ \E h \in Handles :
       /\ hist[h] = "open" /\ h \notin {res.img, res.image_pil}
       /\ hist' = [hist EXCEPT ![h] = "finalized"]
  /\ UNCHANGED <<disk, store, res>>

InitLoad ==
  /\ disk = Entries
  /\ store = [k \in Keys |-> Absent]
  /\ \E e \in Entries : \E alpha \in BOOLEAN :
       res = Frame(e.path, alpha, "open", "None", "None", "running")
  /\ hist = NoHandles

NextLoad ==
  \/ ImageOpen \/ ExifTranspose \/ Convert \/ ToTensor \/ Mask
  \/ CleanUp \/ Except \/ Finalize

\* One call of load_image_as_tensor.
SpecLoad == InitLoad /\ [][NextLoad]_vars

\* C24: when load_image_as_tensor has returned, every handle it made has
\* been closed, and it has returned (None, None) exactly when a statement
\* raised.
C24_LoaderClosesEveryHandle ==
  (res.kind = "load_image_as_tensor" /\ res.pc = "returned") =>
    /\ \A h \in Handles : hist[h] \in {"unmade", "closed"}
    /\ res.returned \in {"tensors", "None"}

(***************************************************************************)
(* Progress                                                                *)
(***************************************************************************)

\* The candidates of a directory that the record does not hold.
Remaining(dsk, st, directory_path) ==
  {c \in Candidates(dsk, directory_path) : c.path \notin StoredProcessed(st, directory_path)}

C27_IndexWithinTotal ==
  res.kind \in {"Invalid", "Empty", "Raised", "AllProcessed", "Exhausted", "Advancing"} =>
    res.current_index <= res.total_count

(***************************************************************************)
(* Runs that change the scan mode                                          *)
(*                                                                         *)
(* A followed run on "/a/b", which may hold subdirectories, from no state  *)
(* file or from a legacy record; process_subdirectories and                *)
(* reset_on_directory_change are "enable" or "disable" at each invocation, *)
(* and reset_progress is "false".  The writes succeed.                     *)
(***************************************************************************)

ModeArgs ==
  {a \in ArgSets : a.directory_path = "/a/b" /\ a.reset_progress = "false"}

InvokeModes == hist.ncalls < MaxCalls /\ Call(ModeArgs, {"ok"})

InitModes ==
  /\ disk \in Trees
  /\ store \in [Keys -> {Absent, LegacyRecord}]
  /\ res = NoResult
  /\ hist = [NoHist EXCEPT !.tracked = TRUE,
                           !.fresh = \A k \in Keys : store[k] = Absent]

NextModes == InvokeModes

SpecModes == InitModes /\ [][NextModes]_vars

\* The image files directly in a directory.
TopFiles(dsk, directory_path) ==
  {e \in dsk : e.dir = directory_path /\ e.kind = "file" /\ HasImageExtension(e.name)}

\* C28: the flat scan and the recursive scan of a directory give every image
\* file directly in it, under the same path; and an invocation on the same
\* directory with reset_progress = "false", whichever its scan mode, comes
\* to no path that the record holds or that an earlier invocation of the
\* run, whichever its scan mode, came to.
C28_ProgressAcrossScanModes ==
  [][hist'.ncalls = hist.ncalls + 1 =>
       LET d == res'.directory_path
           top == {e.path : e \in TopFiles(disk, d)}
       IN  /\ top \subseteq Range(scan_directory_for_images(disk, d))
           /\ top = {p \in Range(scan_directory_recursive(disk, d)) :
                       \E e \in disk : e.path = p /\ e.dir = d}
           /\ Range(res'.visited) \cap StoredProcessed(store, d) = {}
           /\ Range(res'.visited) \cap hist.attempted = {}]_vars

(***************************************************************************)
(* The wildcard output cache (wildcard_processor.py)                       *)
(*                                                                         *)
(* _wildcard_output_cache maps keys to processed texts.  Of the keys the   *)
(* model keeps how many there are of each sort: ids, the unique_id keys    *)
(* that do not start with "latest_"; stamps, the keys that do; and the key *)
(* "latest", with its text.  Here store is the cache, res the value of the *)
(* last call of process_text and hist the processed text of the last call  *)
(* that returned it.                                                       *)
(***************************************************************************)

_MAX_CACHE_SIZE == 100

\* The bounds of the model: the unique_id keys of each sort.
MaxIds == 101
MaxStamps == 1

Texts == {"", "t"}
ProcessedTexts == {"p", "q"}

\* What unique_id is: None, a key the cache does not hold, a key it holds,
\* the string "latest", or a string that starts with "latest_", new or held.
UniqueIds == {"None", "new", "held", "latest", "stamp_new", "stamp_held"}

EmptyCache == [ids |-> 0, stamps |-> 0, latest |-> "None"]

\* len(_wildcard_output_cache)
CacheLen(cache) ==
  cache.ids + cache.stamps + (IF cache.latest = "None" THEN 0 ELSE 1)

\* Lines 107-112: the entries of the call are stored.
CachePut(cache, unique_id, processed_text) ==
  [ids |-> cache.ids + (IF unique_id = "new" THEN 1 ELSE 0),
   stamps |-> cache.stamps + (IF unique_id = "stamp_new" THEN 1 ELSE 0),
   latest |-> processed_text]

\* Lines 131-145: over the limit, the keys that start with "latest_" are
\* deleted; "latest" and the other keys are kept.
CacheAfterCleanup(cache) ==
  IF CacheLen(cache) > _MAX_CACHE_SIZE THEN [cache EXCEPT !.stamps = 0] ELSE cache

\* Lines 150-157: over the limit, the locals deleted at lines 150-151 are
\* read in the finally clause: UnboundLocalError.
CleanupRaises(cache) == CacheLen(cache) > _MAX_CACHE_SIZE

Returned(kind, unique_id, processed_text, original_text) ==
  [kind |-> kind, unique_id |-> unique_id,
   processed_text |-> processed_text, original_text |-> original_text]

\* process_text, lines 60-122; outcome is "raise" or the text
\* process_wildcards_in_text gives.
process_text ==
  \E text \in Texts, enable_wildcards \in BOOLEAN, unique_id \in UniqueIds,
     outcome \in ProcessedTexts \cup {"raise"} :
    /\ unique_id = "new" => store.ids < MaxIds
    /\ unique_id = "held" => store.ids > 0
    /\ unique_id = "stamp_new" => store.stamps < MaxStamps
    /\ unique_id = "stamp_held" => store.stamps > 0
    /\ IF text = ""
       THEN /\ res' = Returned("no_text", unique_id, "", "")
            /\ UNCHANGED <<store, hist>>
       ELSE IF ~enable_wildcards
       THEN /\ res' = Returned("disabled", unique_id, text, text)
            /\ UNCHANGED <<store, hist>>
       ELSE IF outcome = "raise"
       THEN /\ res' = Returned("error", unique_id, text, text)
            /\ UNCHANGED <<store, hist>>
       ELSE LET cached == CachePut(store, unique_id, outcome)
            IN  /\ store' = CacheAfterCleanup(cached)
                /\ IF CleanupRaises(cached)
                   THEN /\ res' = Returned("error", unique_id, text, text)
                        /\ UNCHANGED hist
                   ELSE /\ res' = Returned("processed", unique_id, outcome, text)
                        /\ hist' = outcome
    /\ UNCHANGED disk

InitCache ==
  /\ disk = {}
  /\ store = EmptyCache
  /\ res = Returned("none", "None", "", "")
  /\ hist = "None"

NextCache == process_text

\* Calls of process_text, in any number.
SpecCache == InitCache /\ [][NextCache]_vars

\* C29: after every call of process_text the cache holds at most
\* _MAX_CACHE_SIZE entries, and its "latest" entry is the processed text of
\* the last call that returned one.
C29_CacheIsLimited ==
  res.kind \in {"no_text", "disabled", "error", "processed"} =>
    /\ CacheLen(store) <= _MAX_CACHE_SIZE
    /\ store.latest = hist

(***************************************************************************)
(* The lazy conditional switch (lazy_conditional_switch.py)                *)
(*                                                                         *)
(* One run of a host that follows the lazy protocol: it calls              *)
(* check_lazy_status, evaluates the inputs that names, calls it again      *)
(* until it names none, and then calls switch.  Here store is the value    *)
(* each input gives when it is evaluated, res the state of the run: the    *)
(* condition, the values the node is given so far ("None": not evaluated), *)
(* the names last asked for, where the host is (pc) and what switch gave;  *)
(* hist is the inputs asked for and the inputs evaluated so far.           *)
(***************************************************************************)

\* The conditions a host passes: booleans, or 1 and 0 from a comparison.
Conditions == {"True", "False", "1", "0"}

\* bool(condition)
Bool(condition) == condition \in {"True", "1"}

\* The values an input can give: None, a value that is false as a boolean,
\* and another one.
InputValues == {"None", "0", "v"}

InputNames == {"true_value", "false_value"}

\* A check_lazy_status that asks for every input not evaluated yet.
check_lazy_status_eager(condition, true_value, false_value) ==
  (IF true_value = "None" THEN {"true_value"} ELSE {})
    \cup (IF false_value = "None" THEN {"false_value"} ELSE {})

\* check_lazy_status, lines 49-78: the names it returns.
check_lazy_status(condition, true_value, false_value) ==
  LET cond == Bool(condition)
  IN  IF cond /\ true_value = "None" THEN {"true_value"}
      ELSE IF ~cond /\ false_value = "None" THEN {"false_value"}
      ELSE {}

\* switch, lines 80-107: the value it returns, or RuntimeError.
switch(condition, true_value, false_value) ==
  LET cond == Bool(condition)
  IN  IF cond
      THEN IF true_value = "None"
           THEN [raised |-> TRUE, value |-> "None"]
           ELSE [raised |-> FALSE, value |-> true_value]
      ELSE IF false_value = "None"
           THEN [raised |-> TRUE, value |-> "None"]
           ELSE [raised |-> FALSE, value |-> false_value]

LazyRun(condition, pc, true_value, false_value, asked, out) ==
  [kind |-> "lazy", condition |-> condition, pc |-> pc,
   true_value |-> true_value, false_value |-> false_value,
   asked |-> asked, raised |-> out.raised, value |-> out.value]

NoValue == [raised |-> FALSE, value |-> "None"]

\* The host calls check_lazy_status with the values it has.
CheckLazyStatus ==
  /\ res.pc = "check"
  /\ LET names == check_lazy_status(res.condition, res.true_value, res.false_value)
     IN  /\ res' = [res EXCEPT !.asked = names,
                               !.pc = IF names = {} THEN "switch" ELSE "evaluate"]
         /\ hist' = [hist EXCEPT !.asked = @ \cup names]
  /\ UNCHANGED <<disk, store>>

\* The host evaluates the inputs asked for, and no other.
EvaluateInputs ==
  /\ res.pc = "evaluate"
  /\ res' = [res EXCEPT
               !.true_value = IF "true_value" \in res.asked THEN store.true_value ELSE @,
               !.false_value = IF "false_value" \in res.asked THEN store.false_value ELSE @,
               !.pc = "check"]
  /\ hist' = [hist EXCEPT !.evaluated = @ \cup res.asked]
  /\ UNCHANGED <<disk, store>>

\* The host calls switch.
Switch ==
  /\ res.pc = "switch"
  /\ LET out == switch(res.condition, res.true_value, res.false_value)
     IN  res' = [res EXCEPT !.pc = "done", !.raised = out.raised, !.value = out.value]
  /\ UNCHANGED <<disk, store, hist>>

InitLazy ==
  /\ disk = {}
  /\ store \in [InputNames -> InputValues]
  /\ \E condition \in Conditions :
       res = LazyRun(condition, "check", "None", "None", {}, NoValue)
  /\ hist = [asked |-> {}, evaluated |-> {}]

NextLazy == CheckLazyStatus \/ EvaluateInputs \/ Switch

\* A run of a host that follows the lazy protocol.
SpecLazy == InitLazy /\ [][NextLazy]_vars

\* The input the condition selects.
Selected(condition) == IF Bool(condition) THEN "true_value" ELSE "false_value"

\* C30: in a run that follows the lazy protocol, whatever the condition,
\* no input but the selected one is asked for or evaluated, the node is
\* never given a value of the other one, and switch, when the host comes to
\* call it, raises nothing and returns the value of the selected input.
C30_OnlySelectedInputEvaluated ==
  res.kind = "lazy" =>
    /\ hist.asked \subseteq {Selected(res.condition)}
    /\ hist.evaluated \subseteq {Selected(res.condition)}
    /\ Bool(res.condition) => res.false_value = "None"
    /\ ~Bool(res.condition) => res.true_value = "None"
    /\ res.pc = "done" =>
         /\ ~res.raised
         /\ res.value = store[Selected(res.condition)]
         /\ res.value # "None"
         /\ hist.evaluated = {Selected(res.condition)}

\* C30 witness: the condition is 0; switch has returned the value of
\* false_value, itself false as a boolean; true_value, which would have
\* given a value, was not evaluated.
C30_Witness ==
  /\ res.kind = "lazy" /\ res.pc = "done" /\ res.condition = "0"
  /\ res.value = "0" /\ store.false_value = "0"
  /\ store.true_value = "v" /\ res.true_value = "None"
  /\ hist.evaluated = {"false_value"}

=============================================================================
